---- MODULE Spec2Model ----
(***************************************************************************)
(* Model of the LogSeq -> Notion converters:                               *)
(*   LogSeqToNotionConverter        (logseq_to_notion_converter.py)        *)
(*   LogSeqToTeamTemplateConverter  (logseq_to_team_template_converter.py) *)
(*                                                                         *)
(* A Python str is a sequence of characters; a character is a one-letter   *)
(* TLA+ string.  The three CJK characters of the date display names are    *)
(* the tokens "Nian" (U+5E74), "Yue" (U+6708) and "Ri" (U+65E5); the       *)
(* backquote is the token "Tick".                                          *)
(***************************************************************************)
EXTENDS Integers, Sequences, FiniteSets, TLC

VARIABLES
  variant,           \* "plain": LogSeqToNotionConverter, "team": LogSeqToTeamTemplateConverter
  genUuid,           \* self.generate_uuid (plain) / self.with_uuid (team), set by __init__
  export,            \* the source export: its *.md files in glob order, pages/ before journals/
  root,              \* the directory logseq_export_path (plain) / logseq-export (team) names
  source_name,       \* the constructor argument source_name, "" when not given
  output_dir,        \* whether the output directory exists (mkdir of __init__)
  fault_budget,      \* how many more writes or reads of derived artifacts the file system lets fail
  pc,                \* position of convert()
  idx,               \* index into export of the running for-loop
  page_mapping,      \* self.page_mapping: logical key -> <<output filename, uuid>>
  database_entries,  \* self.database_entries (team)
  conversion_log,    \* self.conversion_log
  outFiles,          \* the output directory: file name -> text written
  tables,            \* the CSV files of the team variant: name -> rows
  mainPage,          \* the landing page of the team variant: <<>> until written
  report,            \* conversion_report.json: <<>> until written
  zipped,            \* names of the files inside the ZIP archive
  raised,            \* the exception convert() re-raised, "" if none
  registered,        \* history: export indexes that were assigned into page_mapping
  rewritten,         \* history: export indexes whose text went through convert_links, in call order
  emitted            \* history: export index -> output file name its text was written to

vars == <<variant, genUuid, export, root, source_name, output_dir, fault_budget, pc, idx, page_mapping, database_entries,
          conversion_log, outFiles, tables, mainPage, report, zipped, raised,
          registered, rewritten, emitted>>

----------------------------------------------------------------------------
(* Bounds of the model *)

\* most *.md files in one export
MaxDocs == 2
\* most characters appended to a stem prefix (stem exploration)
MaxStemLen == 2
\* most characters in a document text (text exploration)
MaxTextLen == 7
\* length of the random token standing for uuid4().hex
UuidLen == 2
\* most failed writes or reads of the derived artifacts (tables, landing
\* page, contents page, report, archive) in one run
MaxFaults == 1

\* most lines of a text of task lines
MaxLines == 2

----------------------------------------------------------------------------
(* Characters and Python str primitives *)

Digits == {"0", "1", "2", "3", "4", "5", "6", "7", "8", "9"}

LowerLetters == {"a", "b", "c", "d", "e", "f", "g", "h", "i", "j", "k", "l", "m",
                 "n", "o", "p", "q", "r", "s", "t", "u", "v", "w", "x", "y", "z"}

UpperLetters == {"A", "B", "C", "D", "E", "F", "G", "H", "I", "J", "K", "L", "M",
                 "N", "O", "P", "Q", "R", "S", "T", "U", "V", "W", "X", "Y", "Z"}

\* regex \s on the characters the model uses
Whitespace == {" ", "\n", "\t"}

\* all strings over the characters S of length lo..hi
StringsOver(S, lo, hi) == UNION {[1..n -> S] : n \in lo..hi}

\* smallest index k >= i with s[k] \in C, 0 when there is none
find_first(s, i, C) ==
  LET K == {k \in i..Len(s) : s[k] \in C}
  IN  IF K = {} THEN 0 ELSE CHOOSE k \in K : \A m \in K : k <= m

\* index of the last character of the longest run of C-characters starting
\* at i (i - 1 when s[i] is not in C): a greedy character class
span_end(s, i, C) ==
  LET K == {k \in i..Len(s) : s[k] \notin C}
  IN  IF K = {} THEN Len(s) ELSE (CHOOSE k \in K : \A m \in K : k <= m) - 1

\* s.startswith(p, i - 1)
starts_at(s, i, p) ==
  /\ i >= 1
  /\ i + Len(p) - 1 <= Len(s)
  /\ \A k \in 1..Len(p) : s[i + k - 1] = p[k]

\* p in s
contains(s, p) == \E i \in 1..(Len(s) + 1) : starts_at(s, i, p)

\* str.strip(chars)
strip(s, C) ==
  LET K == {k \in 1..Len(s) : s[k] \notin C}
  IN  IF K = {} THEN <<>>
      ELSE SubSeq(s, CHOOSE k \in K : \A m \in K : k <= m,
                     CHOOSE k \in K : \A m \in K : k >= m)

\* str.split(sep) for a one-character separator
RECURSIVE split(_, _)
split(s, sep) ==
  LET j == find_first(s, 1, {sep})
  IN  IF j = 0 THEN <<s>>
      ELSE <<SubSeq(s, 1, j - 1)>> \o split(SubSeq(s, j + 1, Len(s)), sep)

\* concatenation of a sequence of strings
RECURSIVE join(_)
join(ss) == IF ss = <<>> THEN <<>> ELSE Head(ss) \o join(Tail(ss))

\* re.sub(pattern, repl, s): scan left to right from i; match_end[i] is the
\* index of the last character of the pattern's match starting at i, 0 for
\* no match; repl[i] is the replacement of the match starting at i.
RECURSIVE re_sub(_, _, _, _)
re_sub(match_end, repl, s, i) ==
  IF i > Len(s) THEN <<>>
  ELSE LET e == match_end[i]
       IN  IF e = 0 THEN <<s[i]>> \o re_sub(match_end, repl, s, i + 1)
           ELSE repl[i] \o re_sub(match_end, repl, s, e + 1)

\* the matched texts re.sub visits, in order
RECURSIVE re_matches(_, _, _)
re_matches(match_end, s, i) ==
  IF i > Len(s) THEN <<>>
  ELSE LET e == match_end[i]
       IN  IF e = 0 THEN re_matches(match_end, s, i + 1)
           ELSE <<SubSeq(s, i, e)>> \o re_matches(match_end, s, e + 1)

----------------------------------------------------------------------------
(* urllib.parse.quote *)

\* characters quote() never encodes
AlwaysSafe == Digits \cup LowerLetters \cup UpperLetters \cup {"_", ".", "-", "~"}

\* %XX of the UTF-8 bytes of the other characters of the model
PctTable ==
  [c \in {" ", "!", "\"", "#", "%", "(", ")", "*", "/", ":", "<", ">", "?",
          "[", "\\", "]", "{", "|", "}", "\n", "\t", "Nian", "Yue", "Ri"} |->
     CASE c = " "    -> <<"%", "2", "0">>
       [] c = "!"    -> <<"%", "2", "1">>
       [] c = "\""   -> <<"%", "2", "2">>
       [] c = "#"    -> <<"%", "2", "3">>
       [] c = "%"    -> <<"%", "2", "5">>
       [] c = "("    -> <<"%", "2", "8">>
       [] c = ")"    -> <<"%", "2", "9">>
       [] c = "*"    -> <<"%", "2", "A">>
       [] c = "/"    -> <<"%", "2", "F">>
       [] c = ":"    -> <<"%", "3", "A">>
       [] c = "<"    -> <<"%", "3", "C">>
       [] c = ">"    -> <<"%", "3", "E">>
       [] c = "?"    -> <<"%", "3", "F">>
       [] c = "["    -> <<"%", "5", "B">>
       [] c = "\\"   -> <<"%", "5", "C">>
       [] c = "]"    -> <<"%", "5", "D">>
       [] c = "{"    -> <<"%", "7", "B">>
       [] c = "|"    -> <<"%", "7", "C">>
       [] c = "}"    -> <<"%", "7", "D">>
       [] c = "\n"   -> <<"%", "0", "A">>
       [] c = "\t"   -> <<"%", "0", "9">>
       [] c = "Nian" -> <<"%", "E", "5", "%", "B", "9", "%", "B", "4">>
       [] c = "Yue"  -> <<"%", "E", "6", "%", "9", "C", "%", "8", "8">>
       [] c = "Ri"   -> <<"%", "E", "6", "%", "9", "7", "%", "A", "5">>]

\* quote(s, safe=safe)
RECURSIVE quote(_, _)
quote(s, safe) ==
  IF s = <<>> THEN <<>>
  ELSE (IF Head(s) \in AlwaysSafe \cup safe THEN <<Head(s)>> ELSE PctTable[Head(s)])
       \o quote(Tail(s), safe)

----------------------------------------------------------------------------
(* File names: sanitize_filename, create_notion_filename, journal dates *)

\* the character class [<>:"/\\|?*]
HostileChars == {"<", ">", ":", "\"", "/", "\\", "|", "?", "*"}

\* sanitize_filename (identical in both converters)
sanitize_filename(filename) ==
  strip([i \in 1..Len(filename) |->
           IF filename[i] \in HostileChars THEN "_" ELSE filename[i]],
        {".", " "})

\* create_notion_filename (identical in both converters; flag is
\* self.generate_uuid / self.with_uuid)
create_notion_filename(page_name, page_uuid, flag) ==
  IF flag
  THEN sanitize_filename(page_name) \o <<" ">> \o page_uuid \o <<".", "m", "d">>
  ELSE sanitize_filename(page_name) \o <<".", "m", "d">>

\* re.match(r'\d{4}_\d{2}_\d{2}', s): a match at the start, not a full match
match_ymd_underscore(s) ==
  /\ Len(s) >= 10
  /\ \A k \in {1, 2, 3, 4, 6, 7, 9, 10} : s[k] \in Digits
  /\ s[5] = "_"
  /\ s[8] = "_"

\* re.match(r'\d{4}年\d{2}月\d{2}日', s)
match_ymd_chinese(s) ==
  /\ Len(s) >= 11
  /\ \A k \in {1, 2, 3, 4, 6, 7, 9, 10} : s[k] \in Digits
  /\ s[5] = "Nian"
  /\ s[8] = "Yue"
  /\ s[11] = "Ri"

\* the journal branch of scan_pages: the display name of a journal key, or
\* the ValueError of unpacking split('_') into three names
journal_page_name(date_str) ==
  IF match_ymd_underscore(date_str)
  THEN LET parts == split(date_str, "_")
       IN  IF Len(parts) # 3
           THEN [err |-> "ValueError", name |-> <<>>]
           ELSE [err |-> "",
                 name |-> parts[1] \o <<"Nian">> \o parts[2] \o <<"Yue">>
                          \o parts[3] \o <<"Ri">>]
  ELSE [err |-> "", name |-> date_str]

\* convert_date_format as it would be if the start date were written day first
convert_date_format_day_first(date_str) ==
  IF match_ymd_underscore(date_str)
  THEN LET parts == split(date_str, "_")
       IN  IF Len(parts) # 3
           THEN [err |-> "ValueError", name |-> <<>>, date |-> <<>>]
           ELSE [err |-> "",
                 name |-> parts[1] \o <<"Nian">> \o parts[2] \o <<"Yue">>
                          \o parts[3] \o <<"Ri">>,
                 date |-> parts[3] \o <<"/">> \o parts[2] \o <<"/">> \o parts[1]]
  ELSE [err |-> "", name |-> date_str, date |-> <<>>]

\* convert_date_format: <<display name, start date>>, or the ValueError
convert_date_format(date_str) ==
  IF match_ymd_underscore(date_str)
  THEN LET parts == split(date_str, "_")
       IN  IF Len(parts) # 3
           THEN [err |-> "ValueError", name |-> <<>>, date |-> <<>>]
           ELSE [err |-> "",
                 name |-> parts[1] \o <<"Nian">> \o parts[2] \o <<"Yue">>
                          \o parts[3] \o <<"Ri">>,
                 date |-> parts[2] \o <<"/">> \o parts[3] \o <<"/">> \o parts[1]]
  ELSE IF match_ymd_chinese(date_str)
  THEN [err |-> "", name |-> date_str,
        date |-> SubSeq(date_str, 6, 7) \o <<"/">> \o SubSeq(date_str, 9, 10)
                 \o <<"/">> \o SubSeq(date_str, 1, 4)]
  ELSE [err |-> "", name |-> date_str, date |-> <<>>]

\* determine_page_type: "journal" is the literal 日志, "article" is 文章
determine_page_type(coll, page_name) ==
  IF coll = "journals" THEN "journal"
  ELSE IF match_ymd_chinese(page_name) \/ match_ymd_underscore(page_name)
  THEN "journal"
  ELSE "article"

----------------------------------------------------------------------------
(* Cross-references: convert_links of both converters *)

\* the pattern \[\[([^\]]+)\]\]
link_match_end(s, i) ==
  IF starts_at(s, i, <<"[", "[">>)
  THEN LET j == find_first(s, i + 2, {"]"})
       IN  IF j >= i + 3 /\ j + 1 <= Len(s) /\ s[j + 1] = "]" THEN j + 1 ELSE 0
  ELSE 0

\* match.group(1) of a matched cross-reference
link_name(m) == SubSeq(m, 3, Len(m) - 2)

\* names of the cross-references of a text, in order
link_names(content) ==
  LET E  == [i \in DOMAIN content |-> link_match_end(content, i)]
      ms == re_matches(E, content, 1)
  IN  [k \in 1..Len(ms) |-> link_name(ms[k])]

\* the pattern !\[([^\]]*)\]\(([^)]+)\)
image_match_end(s, i) ==
  IF starts_at(s, i, <<"!", "[">>)
  THEN LET j == find_first(s, i + 2, {"]"})
       IN  IF j # 0 /\ j + 1 <= Len(s) /\ s[j + 1] = "("
           THEN LET k == find_first(s, j + 2, {")"})
                IN  IF k >= j + 3 THEN k ELSE 0
           ELSE 0
  ELSE 0

\* os.path.basename
basename(path) ==
  LET K == {k \in 1..Len(path) : path[k] = "/"}
  IN  IF K = {} THEN path
      ELSE SubSeq(path, (CHOOSE k \in K : \A m \in K : k >= m) + 1, Len(path))

\* replace_image_link without the test of the path: every image reference is
\* flattened
replace_image_link_always(m) ==
  LET j          == find_first(m, 3, {"]"})
      alt_text   == SubSeq(m, 3, j - 1)
      image_path == SubSeq(m, j + 2, Len(m) - 1)
  IN  <<"!", "[">> \o alt_text \o <<"]", "(">>
      \o quote(basename(image_path), {}) \o <<")">>

\* convert_image_links.replace_image_link
replace_image_link(m) ==
  LET j          == find_first(m, 3, {"]"})
      alt_text   == SubSeq(m, 3, j - 1)
      image_path == SubSeq(m, j + 2, Len(m) - 1)
  IN  IF starts_at(image_path, 1, <<".", ".", "/", "a", "s", "s", "e", "t", "s", "/">>)
         \/ contains(image_path, <<"a", "s", "s", "e", "t", "s", "/">>)
      THEN <<"!", "[">> \o alt_text \o <<"]", "(">>
           \o quote(basename(image_path), {}) \o <<")">>
      ELSE m

\* LogSeqToNotionConverter.convert_image_links
convert_image_links(content) ==
  LET E == [i \in DOMAIN content |-> image_match_end(content, i)]
      R == [i \in DOMAIN content |-> replace_image_link(SubSeq(content, i, E[i]))]
  IN  re_sub(E, R, content, 1)

\* LogSeqToNotionConverter.convert_links.replace_page_link
plain_replace_page_link(m, mapping) ==
  LET page_name == link_name(m)
  IN  IF page_name \in DOMAIN mapping
      THEN <<"[">> \o page_name \o <<"]", "(">>
           \o quote(mapping[page_name][1], {}) \o <<")">>
      ELSE <<"[">> \o page_name \o <<"]", "(", "#">> \o page_name \o <<")">>

\* LogSeqToNotionConverter.convert_links: the text returned
plain_convert_links(content, mapping) ==
  LET E == [i \in DOMAIN content |-> link_match_end(content, i)]
      R == [i \in DOMAIN content |->
              plain_replace_page_link(SubSeq(content, i, E[i]), mapping)]
  IN  convert_image_links(re_sub(E, R, content, 1))

\* LogSeqToNotionConverter.convert_links: the entries it appends to the log,
\* one per cross-reference whose name is not in page_mapping
plain_convert_links_log(content, mapping) ==
  LET names == link_names(content)
      miss  == [k \in 1..Len(names) |->
                  IF names[k] \in DOMAIN mapping THEN <<>>
                  ELSE <<(<<"warn_page_not_found", names[k]>>)>>]
  IN  join(miss)

\* LogSeqToTeamTemplateConverter.convert_links.replace_page_link
team_replace_page_link(m, mapping, with_uuid) ==
  LET page_name == link_name(m)
  IN  IF page_name \in DOMAIN mapping
      THEN LET notion_filename  == mapping[page_name][1]
               page_uuid        == mapping[page_name][2]
               encoded_filename ==
                 quote(SubSeq(notion_filename, 1, Len(notion_filename) - 3), {"/"})
           IN  IF with_uuid /\ page_uuid # <<>>
               THEN <<"[">> \o page_name \o <<"]", "(">> \o encoded_filename
                    \o <<"%", "2", "0">> \o page_uuid \o <<".", "m", "d", ")">>
               ELSE <<"[">> \o page_name \o <<"]", "(">> \o encoded_filename
                    \o <<".", "m", "d", ")">>
      ELSE <<"[">> \o page_name \o <<"]">>

\* LogSeqToTeamTemplateConverter.convert_links (it logs nothing)
team_convert_links(content, mapping, with_uuid) ==
  LET E == [i \in DOMAIN content |-> link_match_end(content, i)]
      R == [i \in DOMAIN content |->
              team_replace_page_link(SubSeq(content, i, E[i]), mapping, with_uuid)]
  IN  re_sub(E, R, content, 1)

----------------------------------------------------------------------------
(* LogSeqToNotionConverter.convert_logseq_syntax *)

\* ^ under re.MULTILINE: the start of the text or just after a newline
line_start(s, i) == i = 1 \/ (i > 1 /\ i <= Len(s) + 1 /\ s[i - 1] = "\n")

\* the patterns ^(\s*)-\s+KEYWORD\s+ (re.MULTILINE); \s runs over newlines
task_match_end(s, i, keyword) ==
  IF line_start(s, i)
  THEN LET q == span_end(s, i, Whitespace) + 1
       IN  IF q <= Len(s) /\ s[q] = "-"
           THEN LET r == span_end(s, q + 1, Whitespace)
                IN  IF r >= q + 1 /\ starts_at(s, r + 1, keyword)
                    THEN LET t == span_end(s, r + 1 + Len(keyword), Whitespace)
                         IN  IF t >= r + 1 + Len(keyword) THEN t ELSE 0
                    ELSE 0
           ELSE 0
  ELSE 0

\* r'\1- [x] ' and r'\1- [ ] ': group 1 is the leading whitespace
task_replace(m, box) ==
  SubSeq(m, 1, span_end(m, 1, Whitespace)) \o <<"-", " ", "[", box, "]", " ">>

\* one of the four task substitutions
task_sub(content, keyword, box) ==
  LET E == [i \in DOMAIN content |-> task_match_end(content, i, keyword)]
      R == [i \in DOMAIN content |-> task_replace(SubSeq(content, i, E[i]), box)]
  IN  re_sub(E, R, content, 1)

\* the pattern ^([a-zA-Z-]+)::\s*(.*)$ (re.MULTILINE)
property_match_end(s, i) ==
  IF line_start(s, i)
  THEN LET k == span_end(s, i, LowerLetters \cup UpperLetters \cup {"-"})
       IN  IF k >= i /\ starts_at(s, k + 1, <<":", ":">>)
           THEN LET w  == span_end(s, k + 3, Whitespace)
                    nl == find_first(s, w + 1, {"\n"})
                IN  IF nl = 0 THEN Len(s) ELSE nl - 1
           ELSE 0
  ELSE 0

\* r'**\1**: \2'
property_replace(m) ==
  LET k == span_end(m, 1, LowerLetters \cup UpperLetters \cup {"-"})
      w == span_end(m, k + 3, Whitespace)
  IN  <<"*", "*">> \o SubSeq(m, 1, k) \o <<"*", "*", ":", " ">>
      \o SubSeq(m, w + 1, Len(m))

\* the property substitution
property_sub(content) ==
  LET E == [i \in DOMAIN content |-> property_match_end(content, i)]
      R == [i \in DOMAIN content |-> property_replace(SubSeq(content, i, E[i]))]
  IN  re_sub(E, R, content, 1)

\* the pattern \(\(\([a-f0-9-]+\)\)\)
blockref_match_end(s, i) ==
  IF starts_at(s, i, <<"(", "(", "(">>)
  THEN LET h == span_end(s, i + 3, Digits \cup {"a", "b", "c", "d", "e", "f", "-"})
       IN  IF h >= i + 3 /\ starts_at(s, h + 1, <<")", ")", ")">>) THEN h + 3 ELSE 0
  ELSE 0

\* '> [引用块]'
blockref_replace(m) == <<">", " ", "[", "Yin", "Yong", "Kuai", "]">>

\* the block-reference substitution
blockref_sub(content) ==
  LET E == [i \in DOMAIN content |-> blockref_match_end(content, i)]
      R == [i \in DOMAIN content |-> blockref_replace(SubSeq(content, i, E[i]))]
  IN  re_sub(E, R, content, 1)

\* the pattern \{\{[^}]+\}\}
query_match_end(s, i) ==
  IF starts_at(s, i, <<"{", "{">>)
  THEN LET j == find_first(s, i + 2, {"}"})
       IN  IF j >= i + 3 /\ j + 1 <= Len(s) /\ s[j + 1] = "}" THEN j + 1 ELSE 0
  ELSE 0

\* '<!-- LogSeq查询已移除 -->'
query_replace(m) ==
  <<"<", "!", "-", "-", " ", "L", "o", "g", "S", "e", "q",
    "Cha", "Xun", "Yi3", "Yi2", "Chu", " ", "-", "-", ">">>

\* the query substitution
query_sub(content) ==
  LET E == [i \in DOMAIN content |-> query_match_end(content, i)]
      R == [i \in DOMAIN content |-> query_replace(SubSeq(content, i, E[i]))]
  IN  re_sub(E, R, content, 1)

\* convert_logseq_syntax
convert_logseq_syntax(content) ==
  LET c1 == task_sub(content, <<"D", "O", "N", "E">>, "x")
      c2 == task_sub(c1, <<"T", "O", "D", "O">>, " ")
      c3 == task_sub(c2, <<"L", "A", "T", "E", "R">>, " ")
      c4 == task_sub(c3, <<"N", "O", "W">>, " ")
  IN  query_sub(blockref_sub(property_sub(c4)))

\* the rewriting of convert_file: convert_links, then convert_logseq_syntax
plain_rewrite(content, mapping) ==
  convert_logseq_syntax(plain_convert_links(content, mapping))

----------------------------------------------------------------------------
(* LogSeqToTeamTemplateConverter.extract_summary *)

\* the default of the parameter max_length
MaxSummaryLength == 150

\* index of the next newline at or after i, Len(s) + 1 when there is none:
\* the limit of a '.' that does not match newlines
line_limit(s, i) ==
  LET nl == find_first(s, i, {"\n"}) IN IF nl = 0 THEN Len(s) + 1 ELSE nl

\* the pattern #+ followed by one space
heading_match_end(s, i) ==
  IF i <= Len(s) /\ s[i] = "#"
  THEN LET j == span_end(s, i, {"#"})
       IN  IF j + 1 <= Len(s) /\ s[j + 1] = " " THEN j + 1 ELSE 0
  ELSE 0

\* open(.*?)close on one line: index of the first character of the nearest
\* close at or after i + Len(open), 0 when the pattern does not match at i
lazy_close(s, i, open, close, dotall) ==
  IF starts_at(s, i, open)
  THEN LET from == i + Len(open)
           lim  == IF dotall THEN Len(s) + 1 ELSE line_limit(s, from)
           K    == {k \in from..(lim - 1) : starts_at(s, k, close)
                                             /\ k + Len(close) - 1 < lim}
       IN  IF K = {} THEN 0 ELSE CHOOSE k \in K : \A m \in K : k <= m
  ELSE 0

\* the lazy patterns of bold, italic, fenced code (re.DOTALL) and inline code
lazy_match_end(s, i, open, close, dotall) ==
  LET k == lazy_close(s, i, open, close, dotall)
  IN  IF k = 0 THEN 0 ELSE k + Len(close) - 1

\* the patterns \[(.*?)\]\(.*?\) and !\[.*?\]\(.*?\) with the given opening:
\* index of the "](" the match uses, 0 when the pattern does not match at i
md_link_mid(s, i, open) ==
  IF starts_at(s, i, open)
  THEN LET from == i + Len(open)
           lim  == line_limit(s, from)
           K    == {k \in from..(lim - 1) :
                      /\ starts_at(s, k, <<"]", "(">>)
                      /\ \E p \in (k + 2)..(lim - 1) : s[p] = ")"}
       IN  IF K = {} THEN 0 ELSE CHOOSE k \in K : \A m \in K : k <= m
  ELSE 0

md_link_match_end(s, i, open) ==
  LET k == md_link_mid(s, i, open)
  IN  IF k = 0 THEN 0 ELSE find_first(s, k + 2, {")"})

\* ' '.join(content.split())
RECURSIVE split_join(_)
split_join(s) ==
  LET t == strip(s, Whitespace)
      j == find_first(t, 1, Whitespace)
  IN  IF j = 0 THEN t
      ELSE SubSeq(t, 1, j - 1) \o <<" ">> \o split_join(SubSeq(t, j, Len(t)))

\* re.sub(pattern, '', content): every match removed
remove_sub(E, content) ==
  re_sub(E, [i \in DOMAIN content |-> <<>>], content, 1)

\* re.sub(r'\*\*(.*?)\*\*', r'\1', ...) and re.sub(r'\*(.*?)\*', r'\1', ...):
\* the match without its delimiters
unwrap_sub(content, delim) ==
  LET E == [i \in DOMAIN content |-> lazy_match_end(content, i, delim, delim, FALSE)]
      R == [i \in DOMAIN content |->
              SubSeq(content, i + Len(delim), E[i] - Len(delim))]
  IN  re_sub(E, R, content, 1)

\* re.sub(r'\[(.*?)\]\(.*?\)', r'\1', ...): the link text
md_link_sub(content) ==
  LET E == [i \in DOMAIN content |-> md_link_match_end(content, i, <<"[">>)]
      R == [i \in DOMAIN content |->
              SubSeq(content, i + 1, md_link_mid(content, i, <<"[">>) - 1)]
  IN  re_sub(E, R, content, 1)

\* re.sub(r'#+ ', '', content)
heading_sub(content) ==
  remove_sub([i \in DOMAIN content |-> heading_match_end(content, i)], content)

\* re.sub(r'!\[.*?\]\(.*?\)', '', content)
md_image_sub(content) ==
  remove_sub([i \in DOMAIN content |-> md_link_match_end(content, i, <<"!", "[">>)],
             content)

\* re.sub of fenced code (re.DOTALL) and of inline code with replacement ''
code_sub(content, delim, dotall) ==
  remove_sub([i \in DOMAIN content |->
                lazy_match_end(content, i, delim, delim, dotall)], content)

\* extract_summary(content)
extract_summary(content) ==
  LET c1 == heading_sub(content)
      c2 == unwrap_sub(c1, <<"*", "*">>)
      c3 == unwrap_sub(c2, <<"*">>)
      c4 == md_link_sub(c3)
      c5 == md_image_sub(c4)
      c6 == code_sub(c5, <<"Tick", "Tick", "Tick">>, TRUE)
      c7 == code_sub(c6, <<"Tick">>, FALSE)
      c8 == split_join(c7)
      c9 == IF Len(c8) > MaxSummaryLength
            THEN SubSeq(c8, 1, MaxSummaryLength) \o <<".", ".", ".">>
            ELSE c8
  IN  strip(c9, Whitespace)

----------------------------------------------------------------------------
(* The source exports the model explores *)

\* one *.md file of the export: collection ("pages" or "journals"), filename
\* stem (Path.stem, the logical key) and text
Doc(coll, stem, text) == [coll |-> coll, stem |-> stem, text |-> text]

\* the glob order of an export: distinct files, pages/ listed before journals/
IsExport(e) ==
  /\ \A i, j \in 1..Len(e) :
       i < j => /\ <<e[i].coll, e[i].stem>> # <<e[j].coll, e[j].stem>>
                /\ ~(e[i].coll = "journals" /\ e[j].coll = "pages")

\* the exports of at most n files drawn from the files F, in every glob order
Exports(F, n) == {e \in UNION {[1..k -> F] : k \in 0..n} : IsExport(e)}

\* files of the end-to-end scenarios: pages that reference each other and a
\* missing page, a page and a journal with the same key, a dated journal and
\* the reserved contents page
Catalogue ==
  { Doc("pages", <<"A">>, <<"[", "[", "B", "]", "]">>),
    Doc("pages", <<"B">>, <<"[", "[", "A", "]", "]", "[", "[", "Z", "]", "]">>),
    Doc("pages", <<"c", "o", "n", "t", "e", "n", "t", "s">>, <<"[", "[", "A", "]", "]">>),
    Doc("journals", <<"B">>, <<"x">>),
    Doc("journals", <<"2", "0", "2", "5", "_", "0", "1", "_", "0", "1">>,
        <<"[", "[", "B", "]", "]">>) }

\* stems: nothing or a date in front of every short string over StemChars
StemChars == {"a", "1", ".", " ", ":", "_"}

StemPrefixes == {<<>>, <<"2", "0", "2", "5", "_", "0", "1", "_", "0", "1">>}

StemPool ==
  {p \o t : p \in StemPrefixes, t \in StringsOver(StemChars, 0, MaxStemLen)} \ {<<>>}

\* dated keys YYYY_MM_DD with different digit groups
DateKeys ==
  {y \o <<"_">> \o m \o <<"_">> \o d :
     y \in {<<"2", "0", "2", "5">>, <<"1", "9", "9", "9">>},
     m \in {<<"0", "1">>, <<"1", "2">>},
     d \in {<<"0", "3">>, <<"3", "1">>}}

\* keys of the date exploration: the dated keys, a key already in the
\* display format, and a plain name
DatedStemPool ==
  DateKeys \cup {<<"2", "0", "2", "5", "Nian", "0", "1", "Yue", "0", "3", "Ri">>, <<"A">>}

\* texts: every short string over TextChars
TextChars == {"[", "]", "A"}

\* texts of the syntax exploration: cross-references around names the link
\* pattern accepts, image references over several paths, task lines, a
\* property line, a block reference and a query
LinkNames == {<<"A">>, <<"a", "s", "s", "e", "t", "s", "/", "a">>, <<"{", "{", "q", "}", "}">>, <<"(", "(", "(", "a", ")", ")", ")">>}

LinkTexts ==
  {pre \o <<"[", "[">> \o n \o <<"]", "]">> \o post :
     pre \in {<<>>, <<"!">>}, n \in LinkNames, post \in {<<>>, <<" ", "x">>}}

ImagePaths ==
  {dir \o file :
     dir \in {<<>>, <<".", ".", "/", "a", "s", "s", "e", "t", "s", "/">>, <<"a", "s", "s", "e", "t", "s", "/">>, <<"a", "/", "a", "s", "s", "e", "t", "s", "/">>, <<"m", "y", "a", "s", "s", "e", "t", "s", "/">>,
              <<"h", "t", "t", "p", ":", "/", "/", "h", "/">>},
     file \in {<<"b", ".", "p", "n", "g">>, <<"b", " ", "c", ".", "p", "n", "g">>}}

ImageTexts ==
  {<<"!", "[">> \o alt \o <<"]", "(">> \o path \o <<")">> : alt \in {<<>>, <<"i">>}, path \in ImagePaths}

TaskLines ==
  {indent \o <<"-", " ">> \o word \o rest :
     indent \in {<<>>, <<" ">>},
     word \in {<<"D", "O", "N", "E">>, <<"T", "O", "D", "O">>, <<"L", "A", "T", "E", "R">>, <<"N", "O", "W">>, <<"x">>},
     rest \in {<<>>, <<" ", "y">>}}

\* at most MaxLines task lines, joined by newlines
TaskTexts ==
  UNION {{join([k \in 1..(2 * n - 1) |->
                  IF k % 2 = 1 THEN ls[(k + 1) \div 2] ELSE <<"\n">>]) :
            ls \in [1..n -> TaskLines]} : n \in 1..MaxLines}

MarkupTexts == {<<"i", "d", ":", ":", " ", "1">>, <<"(", "(", "(", "a", "-", "1", ")", ")", ")">>, <<"{", "{", "q", "u", "e", "r", "y", " ", "x", "}", "}">>, <<"x">>}

SyntaxTexts == LinkTexts \cup ImageTexts \cup TaskTexts \cup MarkupTexts

\* files of the name exploration: pages whose names differ only in a
\* character sanitize_filename replaces or strips, a journal with a dated
\* key and a page already named like that journal's display name
NameCatalogue ==
  { Doc("pages", <<"a", ":">>, <<"x">>),
    Doc("pages", <<"a", "_">>, <<"x">>),
    Doc("pages", <<"a", ".">>, <<"x">>),
    Doc("pages", <<"a">>, <<"x">>),
    Doc("pages", <<"2", "0", "2", "5", "Nian", "0", "1", "Yue", "0", "3", "Ri">>, <<"x">>),
    Doc("journals", <<"2", "0", "2", "5", "_", "0", "1", "_", "0", "3">>, <<"x">>) }

\* the random tokens standing for uuid.uuid4().hex: one fresh token for each
\* file an export can hold
HexDigits == <<"a", "7", "c", "0", "e", "1", "b", "2", "d", "3", "f", "4", "5", "6", "8", "9">>

UuidPool == {[k \in 1..UuidLen |-> HexDigits[h]] : h \in 1..MaxDocs}

----------------------------------------------------------------------------
(* The source root __init__ looks at *)

\* names a directory under the root can have; "z" is never there
DirNames == {"x", "y"}

\* what a name under the root is: nothing, a directory without pages/ and
\* journals/, or an export (a directory with pages/ or journals/)
DirKinds == {"absent", "dir", "export"}

\* a source root: whether it exists, whether it holds pages/ or journals/
\* itself, and what each name under it is
Roots ==
  {r \in [exists : BOOLEAN, direct : BOOLEAN, sub : [DirNames -> DirKinds]] :
     ~r.exists => (~r.direct /\ \A n \in DirNames : r.sub[n] = "absent")}

\* the values of the argument source_name: not given, or a name
SourceNames == {"", "x", "z"}

\* a root holding the single export x
ExportRoot ==
  [exists |-> TRUE, direct |-> FALSE, sub |-> [n \in DirNames |-> IF n = "x" THEN "export" ELSE "absent"]]

\* what the path r / name is: the root itself for the empty name
path_kind(r, name) ==
  IF name = "" THEN (IF ~r.exists THEN "absent" ELSE IF r.direct THEN "export" ELSE "dir")
  ELSE IF name \in DirNames THEN r.sub[name]
  ELSE "absent"

\* list_available_exports
list_available_exports(r) == {n \in DirNames : r.sub[n] = "export"}

----------------------------------------------------------------------------
(* Initial states: the converter object after __init__ *)

Constructed ==
  /\ variant \in {"plain", "team"}
  /\ genUuid \in BOOLEAN
  /\ root = ExportRoot
  /\ source_name = "x"
  /\ output_dir = TRUE
  /\ pc = "start"
  /\ idx = 1
  /\ page_mapping = <<>>
  /\ database_entries = <<>>
  /\ conversion_log = <<>>
  /\ outFiles = <<>>
  /\ tables = <<>>
  /\ mainPage = <<>>
  /\ report = <<>>
  /\ zipped = {}
  /\ raised = ""
  /\ registered = {}
  /\ rewritten = <<>>
  /\ emitted = <<>>

\* runs over the exports made of the catalogue's files, on a file system
\* that may fail
Init ==
  /\ Constructed
  /\ export \in Exports(Catalogue, MaxDocs)
  /\ fault_budget = MaxFaults

\* runs over one file of any stem, whose text references the file itself;
\* the derived artifacts are written without failure
InitNames ==
  /\ Constructed
  /\ fault_budget = 0
  /\ \E coll \in {"pages", "journals"}, stem \in StemPool :
       export = <<Doc(coll, stem, <<"[", "[">> \o stem \o <<"]", "]">>)>>

\* runs over one page A of any text; the derived artifacts are written
\* without failure
InitText ==
  /\ Constructed
  /\ fault_budget = 0
  /\ \E text \in StringsOver(TextChars, 0, MaxTextLen) :
       export = <<Doc("pages", <<"A">>, text)>>

\* runs over one file of the date exploration, in pages/ or in journals/
InitDates ==
  /\ Constructed
  /\ fault_budget = MaxFaults
  /\ \E coll \in {"pages", "journals"}, stem \in DatedStemPool :
       export = <<Doc(coll, stem, <<"x">>)>>

\* runs over one page A of any text of the syntax exploration; the derived
\* artifacts are written without failure
InitSyntax ==
  /\ Constructed
  /\ fault_budget = 0
  /\ \E text \in SyntaxTexts : export = <<Doc("pages", <<"A">>, text)>>

\* runs over the exports of the name exploration; the derived artifacts are
\* written without failure
InitCollisions ==
  /\ Constructed
  /\ fault_budget = 0
  /\ export \in Exports(NameCatalogue, MaxDocs)

\* constructor calls on any source root, before __init__ has run; export is
\* what the export directories hold
InitRoots ==
  /\ variant \in {"plain", "team"}
  /\ genUuid \in BOOLEAN
  /\ root \in Roots
  /\ source_name \in SourceNames
  /\ export \in Exports(Catalogue, 1)
  /\ output_dir = FALSE
  /\ fault_budget = MaxFaults
  /\ pc = "new"
  /\ idx = 1
  /\ page_mapping = <<>>
  /\ database_entries = <<>>
  /\ conversion_log = <<>>
  /\ outFiles = <<>>
  /\ tables = <<>>
  /\ mainPage = <<>>
  /\ report = <<>>
  /\ zipped = {}
  /\ raised = ""
  /\ registered = {}
  /\ rewritten = <<>>
  /\ emitted = <<>>

----------------------------------------------------------------------------
(* __init__ of both converters *)

\* the constructor raised: nothing else changes
init_raises(err) ==
  /\ raised' = err
  /\ pc' = "init_raised"
  /\ UNCHANGED <<export, output_dir>>

\* the constructor returns: self.logseq_path is a directory of the given
\* kind, the output directory is made, the run sees the files of that
\* directory
init_returns(kind) ==
  /\ output_dir' = TRUE
  /\ export' = IF kind = "export" THEN export ELSE <<>>
  /\ pc' = "start"
  /\ UNCHANGED raised

\* LogSeqToNotionConverter.__init__
plain_init ==
  /\ variant = "plain"
  /\ pc = "new"
  /\ IF source_name # ""
     THEN IF path_kind(root, source_name) = "absent"
          THEN init_raises("ValueError")
          ELSE init_returns(path_kind(root, source_name))
     ELSE IF root.exists /\ root.direct
          THEN init_returns("export")
          ELSE IF list_available_exports(root) = {}
          THEN init_raises("ValueError")   \* no export found
          ELSE init_raises("ValueError")   \* names the available exports
  /\ UNCHANGED <<variant, genUuid, root, source_name, fault_budget, idx, page_mapping,
                 database_entries, conversion_log, outFiles, tables, mainPage,
                 report, zipped, registered, rewritten, emitted>>

\* LogSeqToTeamTemplateConverter.__init__
team_init ==
  /\ variant = "team"
  /\ pc = "new"
  /\ IF path_kind(root, source_name) = "absent"
     THEN init_raises("ValueError")
     ELSE IF path_kind(root, source_name) # "export"
     THEN init_raises("ValueError")
     ELSE init_returns("export")
  /\ UNCHANGED <<variant, genUuid, root, source_name, fault_budget, idx, page_mapping,
                 database_entries, conversion_log, outFiles, tables, mainPage,
                 report, zipped, registered, rewritten, emitted>>

----------------------------------------------------------------------------
(* Shared steps *)

\* self.log(message) for each message of msgs
log(msgs) == conversion_log' = conversion_log \o msgs

\* an exception leaves convert() through its except clause: logged, re-raised
raise(err) ==
  /\ log(<<(<<"convert_error", err>>)>>)
  /\ raised' = err
  /\ pc' = "raised"

\* the outcomes of one more write or read of a derived artifact.  A failed
\* write is an open() that raises: the file is not created.
IoOutcomes == IF fault_budget > 0 THEN {"ok", "fails"} ELSE {"ok"}

\* the failures left after a write or read with outcome io
spend(io) == fault_budget' = IF io = "ok" THEN fault_budget ELSE fault_budget - 1

\* the names of the files under the output directory, as rglob('*') finds them
output_files ==
  DOMAIN outFiles
  \cup {<<"table", v>> : v \in DOMAIN tables}
  \cup (IF mainPage # <<>> THEN {<<"main_page">>} ELSE {})
  \cup (IF report # <<>> THEN {<<"conversion_report.json">>} ELSE {})

\* dict assignment self.page_mapping[key] = value
assign(mapping, key, value) == (key :> value) @@ mapping

\* the keys of a dict in insertion order, for the scanned files e[1..n]
RECURSIVE keys_in_order(_, _)
keys_in_order(e, n) ==
  IF n = 0 THEN <<>>
  ELSE LET before == keys_in_order(e, n - 1)
       IN  IF \E k \in 1..Len(before) : before[k] = e[n].stem THEN before
           ELSE Append(before, e[n].stem)

----------------------------------------------------------------------------
(* LogSeqToNotionConverter.convert, step by step *)

config == <<variant, genUuid, export, root, source_name, output_dir>>

\* convert(): the opening log lines, up to the call of scan_pages
plain_convert_start ==
  /\ variant = "plain"
  /\ pc = "start"
  /\ log(<<(<<"banner">>), <<"start">>, <<"input_dir">>, <<"output_dir">>, <<"banner">>>>)
  /\ pc' = "scan_start"
  /\ UNCHANGED <<config, fault_budget, idx, page_mapping, database_entries, outFiles, tables,
                 mainPage, report, zipped, raised, registered, rewritten, emitted>>

\* scan_pages: its first log line
scan_pages_start ==
  /\ variant = "plain"
  /\ pc = "scan_start"
  /\ log(<<(<<"scan_start">>)>>)
  /\ pc' = "scan"
  /\ idx' = 1
  /\ UNCHANGED <<config, fault_budget, page_mapping, database_entries, outFiles, tables,
                 mainPage, report, zipped, raised, registered, rewritten, emitted>>

\* scan_pages: one iteration of the pages loop or of the journals loop.
\* self.generate_uuid is the bool __init__ stored over the method of the
\* same name, so calling it (when it is True) raises TypeError.
scan_pages_file ==
  /\ variant = "plain"
  /\ pc = "scan"
  /\ idx <= Len(export)
  /\ LET doc == export[idx]
         r   == IF doc.coll = "journals" THEN journal_page_name(doc.stem)
                ELSE [err |-> "", name |-> doc.stem]
         err == IF r.err # "" THEN r.err
                ELSE IF genUuid THEN "TypeError" ELSE ""
         notion_filename == create_notion_filename(r.name, <<>>, genUuid)
     IN  IF err # ""
         THEN /\ raise(err)
              /\ UNCHANGED <<idx, page_mapping, registered>>
         ELSE /\ page_mapping' = assign(page_mapping, doc.stem, <<notion_filename, <<>>>>)
              /\ registered' = registered \cup {idx}
              /\ log(<<(<<IF doc.coll = "journals" THEN "journal_mapped" ELSE "page_mapped",
                          doc.stem, notion_filename>>)>>)
              /\ idx' = idx + 1
              /\ UNCHANGED <<pc, raised>>
  /\ UNCHANGED <<config, fault_budget, database_entries, outFiles, tables, mainPage, report,
                 zipped, rewritten, emitted>>

\* create_page_hierarchy: one log line per registry entry
create_page_hierarchy ==
  /\ variant = "plain"
  /\ pc = "scan"
  /\ idx > Len(export)
  /\ LET keys == keys_in_order(export, Len(export))
     IN  log(<<(<<"hierarchy">>)>> \o [k \in 1..Len(keys) |-> <<"prepare", keys[k]>>])
  /\ pc' = "assets"
  /\ UNCHANGED <<config, fault_budget, idx, page_mapping, database_entries, outFiles, tables,
                 mainPage, report, zipped, raised, registered, rewritten, emitted>>

\* copy_and_convert_assets, for an export without an assets/ directory
copy_and_convert_assets ==
  /\ variant = "plain"
  /\ pc = "assets"
  /\ log(<<(<<"assets">>), <<"no_assets">>>>)
  /\ pc' = "convert_start"
  /\ UNCHANGED <<config, fault_budget, idx, page_mapping, database_entries, outFiles, tables,
                 mainPage, report, zipped, raised, registered, rewritten, emitted>>

\* convert_all_pages: its first log line
convert_all_pages_start ==
  /\ variant = "plain"
  /\ pc = "convert_start"
  /\ log(<<(<<"convert_start">>)>>)
  /\ pc' = "convert"
  /\ idx' = 1
  /\ UNCHANGED <<config, fault_budget, page_mapping, database_entries, outFiles, tables,
                 mainPage, report, zipped, raised, registered, rewritten, emitted>>

\* convert_all_pages: one iteration of either loop, with its convert_file.
\* Reading the source or writing the target may fail (io); convert_file
\* catches the exception and logs it.
convert_file ==
  /\ variant = "plain"
  /\ pc = "convert"
  /\ idx <= Len(export)
  /\ LET doc == export[idx]
     IN  IF doc.stem \in DOMAIN page_mapping
         THEN LET notion_filename == page_mapping[doc.stem][1]
                  content == plain_rewrite(doc.text, page_mapping)
                  warns   == plain_convert_links_log(doc.text, page_mapping)
              IN  \E io \in {"ok", "read_fails", "write_fails"} :
                    CASE io = "read_fails" ->
                           /\ log(<<(<<"convert_failed", idx>>)>>)
                           /\ UNCHANGED <<rewritten, outFiles, emitted>>
                      [] io = "write_fails" ->
                           /\ log(warns \o <<(<<"convert_failed", idx>>)>>)
                           /\ rewritten' = Append(rewritten, idx)
                           /\ UNCHANGED <<outFiles, emitted>>
                      [] io = "ok" ->
                           /\ log(warns \o <<(<<"converted", idx, notion_filename>>)>>)
                           /\ rewritten' = Append(rewritten, idx)
                           /\ outFiles' = assign(outFiles, notion_filename,
                                                 [header |-> <<>>, body |-> content])
                           /\ emitted' = assign(emitted, idx, notion_filename)
         ELSE UNCHANGED <<conversion_log, rewritten, outFiles, emitted>>
  /\ idx' = idx + 1
  /\ UNCHANGED <<config, fault_budget, pc, page_mapping, database_entries, tables, mainPage,
                 report, zipped, raised, registered>>

\* generate_conversion_report: the write of the report is not guarded, so a
\* failure leaves through the except clause of convert()
generate_conversion_report ==
  /\ variant = "plain"
  /\ pc = "convert"
  /\ idx > Len(export)
  /\ \E io \in IoOutcomes :
       /\ spend(io)
       /\ IF io = "fails"
          THEN /\ raise("OSError")
               /\ UNCHANGED report
          ELSE /\ report' = [total_pages    |-> Cardinality(DOMAIN page_mapping),
                             page_mapping   |-> page_mapping,
                             conversion_log |-> conversion_log]
               /\ log(<<(<<"report_written">>)>>)
               /\ pc' = "zip"
               /\ UNCHANGED raised
  /\ UNCHANGED <<config, idx, page_mapping, database_entries, outFiles, tables,
                 mainPage, zipped, registered, rewritten, emitted>>

\* create_zip_package: every file under the output directory; a failure is
\* caught and logged, and None is returned
create_zip_package ==
  /\ variant = "plain"
  /\ pc = "zip"
  /\ \E io \in IoOutcomes :
       /\ spend(io)
       /\ IF io = "fails"
          THEN /\ log(<<(<<"zip_start">>), <<"zip_failed">>>>)
               /\ UNCHANGED zipped
          ELSE /\ zipped' = output_files
               /\ log(<<(<<"zip_start">>), <<"zip_done">>, <<"zip_size">>>>)
  /\ pc' = "end"
  /\ UNCHANGED <<config, idx, page_mapping, database_entries, outFiles, tables,
                 mainPage, report, raised, registered, rewritten, emitted>>

\* convert(): the closing log lines, with the count of converted pages
plain_convert_end ==
  /\ variant = "plain"
  /\ pc = "end"
  /\ LET zip_path == \E k \in 1..Len(conversion_log) : conversion_log[k][1] = "zip_done"
     IN  log(<<(<<"banner">>), <<"done">>, <<"import_dir">>>>
             \o (IF zip_path THEN <<(<<"zip_path">>)>> ELSE <<>>)
             \o <<(<<"outer_dir">>),
                  <<"pages_converted", Cardinality(DOMAIN page_mapping)>>, <<"banner">>>>)
  /\ pc' = "done"
  /\ UNCHANGED <<config, fault_budget, idx, page_mapping, database_entries, outFiles, tables,
                 mainPage, report, zipped, raised, registered, rewritten, emitted>>

----------------------------------------------------------------------------
(* LogSeqToTeamTemplateConverter.convert, step by step *)

\* the CSV header: 名字, 开始日期, 页面类型, 结束日期, 相关成员, Created by,
\* 内容标签, 摘要, 状态, 进度
headers ==
  <<"name", "start_date", "page_type", "end_date", "members", "created_by",
    "tags", "summary", "status", "progress">>

\* the database entry process_page_file builds
database_entry(display_name, start_date, page_type, summary) ==
  [name       |-> display_name,
   start_date |-> start_date,
   page_type  |-> page_type,
   end_date   |-> <<>>,
   members    |-> <<>>,
   created_by |-> <<"L", "o", "g", "S", "e", "q", "Dao", "Ru">>,
   tags       |-> <<>>,
   summary    |-> summary,
   status     |-> <<"N", "o", "t", " ", "s", "t", "a", "r", "t", "e", "d">>,
   progress   |-> <<>>]

\* csv.DictWriter(f, fieldnames).writeheader(), writerows(entries)
csv_table(fieldnames, entries) ==
  [header |-> fieldnames,
   rows   |-> [k \in 1..Len(entries) |->
                 [h \in 1..Len(fieldnames) |-> entries[k][fieldnames[h]]]]]

\* create_notion_page: the generated header lines, then the converted text
notion_page(page_name, page_type, start_date, content, summary, mapping, with_uuid) ==
  [header |-> <<(<<"title", page_name>>), <<"created_by">>>>
              \o (IF start_date # <<>> THEN <<(<<"start_date", start_date>>)>> ELSE <<>>)
              \o <<(<<"status">>), <<"page_type", page_type>>>>
              \o (IF summary # <<>> THEN <<(<<"summary", summary>>)>> ELSE <<>>),
   body   |-> team_convert_links(content, mapping, with_uuid)]

\* len([e for e in self.database_entries if e['页面类型'] == page_type])
count_type(entries, page_type) ==
  Cardinality({k \in 1..Len(entries) : entries[k].page_type = page_type})

\* convert(): the opening log lines
team_convert_start ==
  /\ variant = "team"
  /\ pc = "start"
  /\ log(<<(<<"banner">>), <<"start">>, <<"source_dir">>, <<"output_dir">>,
           <<"team_name">>, <<"banner">>>>)
  /\ pc' = "assets"
  /\ UNCHANGED <<config, fault_budget, idx, page_mapping, database_entries, outFiles, tables,
                 mainPage, report, zipped, raised, registered, rewritten, emitted>>

\* process_assets, for an export without an assets/ directory
process_assets ==
  /\ variant = "team"
  /\ pc = "assets"
  /\ log(<<(<<"no_assets">>)>>)
  /\ pc' = "scan_start"
  /\ UNCHANGED <<config, fault_budget, idx, page_mapping, database_entries, outFiles, tables,
                 mainPage, report, zipped, raised, registered, rewritten, emitted>>

\* scan_and_convert_pages: its first log line
scan_and_convert_pages_start ==
  /\ variant = "team"
  /\ pc = "scan_start"
  /\ log(<<(<<"scan_start">>)>>)
  /\ pc' = "scan"
  /\ idx' = 1
  /\ UNCHANGED <<config, fault_budget, page_mapping, database_entries, outFiles, tables,
                 mainPage, report, zipped, raised, registered, rewritten, emitted>>

\* scan_and_convert_pages: one iteration of either loop, process_page_file
\* with its create_notion_page.  Reading the source or writing the page may
\* fail (io); both are caught and logged.
process_page_file ==
  /\ variant = "team"
  /\ pc = "scan"
  /\ idx <= Len(export)
  /\ LET doc       == export[idx]
         page_name == doc.stem
         page_type == determine_page_type(doc.coll, page_name)
         d         == IF page_type = "journal" THEN convert_date_format(page_name)
                      ELSE [err |-> "", name |-> page_name, date |-> <<>>]
         used      == {page_mapping[k][2] : k \in DOMAIN page_mapping}
     IN  IF page_name = <<"c", "o", "n", "t", "e", "n", "t", "s">>
         THEN /\ log(<<(<<"skip_contents">>)>>)
              /\ idx' = idx + 1
              /\ UNCHANGED <<pc, raised, page_mapping, registered, database_entries,
                             rewritten, outFiles, emitted>>
         ELSE IF d.err # ""
         THEN /\ raise(d.err)
              /\ UNCHANGED <<idx, page_mapping, registered, database_entries,
                             rewritten, outFiles, emitted>>
         ELSE \E page_uuid \in (IF genUuid THEN UuidPool \ used ELSE {<<>>}),
                 io \in {"ok", "read_fails", "write_fails"} :
                LET notion_filename == create_notion_filename(d.name, page_uuid, genUuid)
                    mapping == assign(page_mapping, page_name, <<notion_filename, page_uuid>>)
                    summary == extract_summary(doc.text)
                    page    == notion_page(d.name, page_type, d.date, doc.text,
                                           summary, mapping, genUuid)
                    done    == <<"page_converted", page_name, d.name, page_type>>
                IN  /\ idx' = idx + 1
                    /\ UNCHANGED <<pc, raised>>
                    /\ IF io = "read_fails"
                       THEN /\ log(<<(<<"read_failed", idx>>)>>)
                            /\ UNCHANGED <<page_mapping, registered, database_entries,
                                           rewritten, outFiles, emitted>>
                       ELSE /\ page_mapping' = mapping
                            /\ registered' = registered \cup {idx}
                            /\ database_entries' =
                                 Append(database_entries,
                                        database_entry(d.name, d.date, page_type, summary))
                            /\ rewritten' = Append(rewritten, idx)
                            /\ IF io = "write_fails"
                               THEN /\ log(<<(<<"write_failed", notion_filename>>), done>>)
                                    /\ UNCHANGED <<outFiles, emitted>>
                               ELSE /\ log(<<done>>)
                                    /\ outFiles' = assign(outFiles, notion_filename, page)
                                    /\ emitted' = assign(emitted, idx, notion_filename)
  /\ UNCHANGED <<config, fault_budget, tables, mainPage, report, zipped>>

\* the six view tables, in the order create_view_csvs writes them
views == <<"today", "global", "projects", "tasks", "meetings", "wiki">>

\* create_database_csv: a failure is caught and logged
create_database_csv ==
  /\ variant = "team"
  /\ pc = "scan"
  /\ idx > Len(export)
  /\ \E io \in IoOutcomes :
       /\ spend(io)
       /\ IF io = "fails"
          THEN /\ log(<<(<<"csv_start">>), <<"csv_failed">>>>)
               /\ UNCHANGED tables
          ELSE /\ tables' = assign(tables, "database", csv_table(headers, database_entries))
               /\ log(<<(<<"csv_start">>), <<"csv_done", Len(database_entries)>>>>)
  /\ pc' = "main_page"
  /\ UNCHANGED <<config, idx, page_mapping, database_entries, outFiles, mainPage,
                 report, zipped, raised, registered, rewritten, emitted>>

\* create_main_page with read_contents_file: the text of pages/contents.md,
\* its links converted, and the import statistics.  A failed read of the
\* contents file gives the empty text; a failed write of the page is caught.
create_main_page ==
  /\ variant = "team"
  /\ pc = "main_page"
  /\ LET C == {k \in 1..Len(export) :
                 /\ export[k].coll = "pages"
                 /\ export[k].stem = <<"c", "o", "n", "t", "e", "n", "t", "s">>}
     IN  \E io \in IoOutcomes \cup (IF C # {} /\ "fails" \in IoOutcomes
                                     THEN {"read_fails"} ELSE {}) :
           LET read == C # {} /\ io # "read_fails"
               page == [contents |-> IF read
                                     THEN team_convert_links(export[CHOOSE k \in C : TRUE].text,
                                                             page_mapping, genUuid)
                                     ELSE <<>>,
                        total    |-> Len(database_entries),
                        journals |-> count_type(database_entries, "journal"),
                        articles |-> count_type(database_entries, "article")]
           IN  /\ spend(io)
               /\ rewritten' = IF read THEN Append(rewritten, CHOOSE k \in C : TRUE)
                               ELSE rewritten
               /\ mainPage' = IF io = "fails" THEN mainPage ELSE page
               /\ log(<<(<<"main_start">>)>>
                      \o (IF io = "read_fails" THEN <<(<<"contents_failed">>)>> ELSE <<>>)
                      \o (IF io = "fails" THEN <<(<<"main_failed">>)>>
                          ELSE <<(<<"main_done">>)>>))
  /\ pc' = "views"
  /\ UNCHANGED <<config, idx, page_mapping, database_entries, outFiles, tables,
                 report, zipped, raised, registered, emitted>>

\* create_view_csvs as it would be if the meetings view kept the journal
\* entries only
create_view_csvs_filtered ==
  /\ variant = "team"
  /\ pc = "views"
  /\ \E failed \in SUBSET (1..Len(views)) :
       /\ Cardinality(failed) <= fault_budget
       /\ fault_budget' = fault_budget - Cardinality(failed)
       /\ tables' = [v \in {views[k] : k \in (1..Len(views)) \ failed} |->
                       csv_table(headers,
                                 IF v = "meetings"
                                 THEN SelectSeq(database_entries,
                                                LAMBDA e : e.page_type = "journal")
                                 ELSE database_entries)] @@ tables
       /\ log(<<(<<"views_start">>)>>
              \o join([k \in 1..Len(views) |->
                         IF k \in failed THEN <<(<<"view_failed", views[k]>>)>> ELSE <<>>])
              \o <<(<<"views_done">>)>>)
  /\ pc' = "report"
  /\ UNCHANGED <<config, idx, page_mapping, database_entries, outFiles, mainPage,
                 report, zipped, raised, registered, rewritten, emitted>>

\* create_view_csvs with its six write_csv calls: each failed write is caught
\* and logged by write_csv
create_view_csvs ==
  /\ variant = "team"
  /\ pc = "views"
  /\ \E failed \in SUBSET (1..Len(views)) :
       /\ Cardinality(failed) <= fault_budget
       /\ fault_budget' = fault_budget - Cardinality(failed)
       /\ tables' = [v \in {views[k] : k \in (1..Len(views)) \ failed} |->
                       csv_table(headers, database_entries)] @@ tables
       /\ log(<<(<<"views_start">>)>>
              \o join([k \in 1..Len(views) |->
                         IF k \in failed THEN <<(<<"view_failed", views[k]>>)>> ELSE <<>>])
              \o <<(<<"views_done">>)>>)
  /\ pc' = "report"
  /\ UNCHANGED <<config, idx, page_mapping, database_entries, outFiles, mainPage,
                 report, zipped, raised, registered, rewritten, emitted>>

\* create_conversion_report: a failure is caught and logged
create_conversion_report ==
  /\ variant = "team"
  /\ pc = "report"
  /\ \E io \in IoOutcomes :
       /\ spend(io)
       /\ IF io = "fails"
          THEN /\ log(<<(<<"report_failed">>)>>)
               /\ UNCHANGED report
          ELSE /\ report' = [total_entries   |-> Len(database_entries),
                             journal_entries |-> count_type(database_entries, "journal"),
                             article_entries |-> count_type(database_entries, "article"),
                             conversion_log  |-> conversion_log]
               /\ log(<<(<<"report_done">>)>>)
  /\ pc' = "zip"
  /\ UNCHANGED <<config, idx, page_mapping, database_entries, outFiles, tables,
                 mainPage, zipped, raised, registered, rewritten, emitted>>

\* create_zip_archive: every file under the output directory; a failure is
\* caught and logged
create_zip_archive ==
  /\ variant = "team"
  /\ pc = "zip"
  /\ \E io \in IoOutcomes :
       /\ spend(io)
       /\ IF io = "fails"
          THEN /\ log(<<(<<"zip_start">>), <<"zip_failed">>>>)
               /\ UNCHANGED zipped
          ELSE /\ zipped' = output_files
               /\ log(<<(<<"zip_start">>), <<"zip_done">>>>)
  /\ pc' = "end"
  /\ UNCHANGED <<config, idx, page_mapping, database_entries, outFiles, tables,
                 mainPage, report, raised, registered, rewritten, emitted>>

\* convert(): the closing log lines, with the entry counts
team_convert_end ==
  /\ variant = "team"
  /\ pc = "end"
  /\ log(<<(<<"banner">>), <<"done">>, <<"output_dir">>,
           <<"total_entries", Len(database_entries)>>,
           <<"journal_entries", count_type(database_entries, "journal")>>,
           <<"article_entries", count_type(database_entries, "article")>>,
           <<"banner">>>>)
  /\ pc' = "done"
  /\ UNCHANGED <<config, fault_budget, idx, page_mapping, database_entries, outFiles, tables,
                 mainPage, report, zipped, raised, registered, rewritten, emitted>>

----------------------------------------------------------------------------
(* Specifications *)

Next ==
  \/ plain_convert_start
  \/ scan_pages_start
  \/ scan_pages_file
  \/ create_page_hierarchy
  \/ copy_and_convert_assets
  \/ convert_all_pages_start
  \/ convert_file
  \/ generate_conversion_report
  \/ create_zip_package
  \/ plain_convert_end
  \/ team_convert_start
  \/ process_assets
  \/ scan_and_convert_pages_start
  \/ process_page_file
  \/ create_database_csv
  \/ create_main_page
  \/ create_view_csvs
  \/ create_conversion_report
  \/ create_zip_archive
  \/ team_convert_end

\* runs over the exports made of the catalogue's files
Spec == Init /\ [][Next]_vars

\* runs over one file of any stem
SpecNames == InitNames /\ [][Next]_vars

\* runs over one page of any text
SpecText == InitText /\ [][Next]_vars

\* runs over one file with a dated key
SpecDates == InitDates /\ [][Next]_vars

\* runs over the texts of the syntax exploration
SpecSyntax == InitSyntax /\ [][Next]_vars

\* runs over the exports of the name exploration
SpecCollisions == InitCollisions /\ [][Next]_vars

\* a constructor call on any source root, then the run
NextInit == plain_init \/ team_init \/ Next

SpecInit == InitRoots /\ [][NextInit]_vars

----------------------------------------------------------------------------
(* Vocabulary of the claims *)

\* percent-decoding of a link target
RECURSIVE unquote(_)
unquote(s) ==
  IF s = <<>> THEN <<>>
  ELSE LET C == {c \in DOMAIN PctTable : starts_at(s, 1, PctTable[c])}
       IN  IF C = {} THEN <<Head(s)>> \o unquote(Tail(s))
           ELSE LET c == CHOOSE c \in C : TRUE
                IN  <<c>> \o unquote(SubSeq(s, Len(PctTable[c]) + 1, Len(s)))

\* a key that is exactly four digits, separator, two digits, separator, two digits
IsStrictDateKey(key) == Len(key) = 10 /\ match_ymd_underscore(key)

\* the display name the registry contract gives a document
DisplayName(doc) ==
  IF doc.coll = "journals" /\ IsStrictDateKey(doc.stem)
  THEN SubSeq(doc.stem, 1, 4) \o <<"Nian">> \o SubSeq(doc.stem, 6, 7) \o <<"Yue">>
       \o SubSeq(doc.stem, 9, 10) \o <<"Ri">>
  ELSE doc.stem

\* the content transformer of the running converter, on the current registry
Transformer(text) ==
  IF variant = "plain" THEN plain_rewrite(text, page_mapping)
  ELSE team_convert_links(text, page_mapping, genUuid)

\* cross-reference rewriting of the running converter, on the current registry
ConvertLinks(text) ==
  IF variant = "plain" THEN plain_convert_links(text, page_mapping)
  ELSE team_convert_links(text, page_mapping, genUuid)

\* the link with visible text name whose target is the percent-encoded file name
LinkTo(name, file) ==
  <<"[">> \o name \o <<"]", "(">> \o quote(file, {}) \o <<")">>

\* the names a text references
References(text) ==
  LET names == link_names(text) IN {names[k] : k \in 1..Len(names)}

\* warning entries of a log
Warnings(entries) ==
  Cardinality({k \in 1..Len(entries) : entries[k][1] = "warn_page_not_found"})

\* cross-references of a text whose name has no entry in the registry
Misses(text, mapping) ==
  LET names == link_names(text)
  IN  Cardinality({k \in 1..Len(names) : names[k] \notin DOMAIN mapping})

\* registered documents whose text was rewritten and whose output file is missing
WriteFailed ==
  {i \in registered : (\E k \in 1..Len(rewritten) : rewritten[k] = i)
                      /\ i \notin DOMAIN emitted}

\* the counts a finished run reports: the closing log line, the run report
\* and, in the team variant, the rows of the primary table
ReportedCounts ==
  {conversion_log[k][2] : k \in {j \in 1..Len(conversion_log) :
                                  conversion_log[j][1] \in {"pages_converted", "total_entries"}}}
  \cup (IF report = <<>> THEN {}
        ELSE IF variant = "plain" THEN {report.total_pages}
        ELSE {report.total_entries})
  \cup (IF "database" \in DOMAIN tables THEN {Len(tables["database"].rows)} ELSE {})

----------------------------------------------------------------------------
(* Claims *)

\* C1: after a full run, the written body of every emitted document D holds,
\* for each cross-reference [[N]] of its source to another emitted document
\* N, the link with text N to N's output file - whatever the scan order.
C1_EmittedLinksResolve ==
  pc = "done" =>
    \A d \in DOMAIN emitted, n \in DOMAIN emitted :
      (d # n /\ export[n].stem \in References(export[d].text))
        => contains(outFiles[emitted[d]].body, LinkTo(export[n].stem, emitted[n]))

\* C2: once the first cross-reference rewrite (convert_links call) of a run
\* has happened, page_mapping is never modified again.
C2_RegistryFrozenWhileRewriting ==
  [][rewritten # <<>> => page_mapping' = page_mapping]_vars

\* C3: for every name N in the registry, convert_links turns [[N]] into the
\* link with text N whose target is the percent-encoding of the output
\* filename stored for N, so that decoding the target gives that filename.
C3_LinkTargetIsStoredFilename ==
  \A N \in DOMAIN page_mapping :
    LET out == ConvertLinks(<<"[", "[">> \o N \o <<"]", "]">>)
    IN  /\ out = LinkTo(N, page_mapping[N][1])
        /\ unquote(SubSeq(out, Len(N) + 4, Len(out) - 1)) = page_mapping[N][1]

\* C4: a page and a journal with the same key get one registry entry each
\* (the registry holds as many entries as documents registered), and both
\* are emitted to their own output file.
C4_SameKeyEntriesIndependent ==
  /\ Cardinality(DOMAIN page_mapping) = Cardinality(registered)
  /\ \A p \in DOMAIN emitted, j \in DOMAIN emitted :
       (p # j /\ export[p].stem = export[j].stem) => emitted[p] # emitted[j]

\* C5: with identifier generation enabled the registry is built without
\* raising and every document's filename is its sanitized display name, a
\* space, the fixed-length identifier of its record, and .md; with it
\* disabled the filename is the sanitized display name and .md, and the
\* identifier is empty.
C5_FilenameCarriesIdentifier ==
  /\ genUuid => raised = ""
  /\ \A i \in registered :
       LET rec  == page_mapping[export[i].stem]
           name == sanitize_filename(DisplayName(export[i]))
       IN  IF genUuid
           THEN /\ Len(rec[2]) = UuidLen
                /\ rec[1] = name \o <<" ">> \o rec[2] \o <<".", "m", "d">>
           ELSE /\ rec[2] = <<>>
                /\ rec[1] = name \o <<".", "m", "d">>

\* C6: every output filename of the registry is free of the characters
\* < > : " / \ | ? * and neither begins nor ends with a dot or a space.
C6_FilenamesSanitized ==
  \A K \in DOMAIN page_mapping :
    LET f == page_mapping[K][1]
    IN  /\ \A k \in 1..Len(f) : f[k] \notin HostileChars
        /\ f # <<>>
        /\ f[1] \notin {".", " "}
        /\ f[Len(f)] \notin {".", " "}

\* C7: no journal key makes the registry construction raise, and a journal
\* whose key is not exactly a date keeps its raw key as display name.
C7_JournalKeysNeverRaise ==
  /\ raised # "ValueError"
  /\ \A i \in registered :
       (export[i].coll = "journals" /\ ~IsStrictDateKey(export[i].stem))
         => page_mapping[export[i].stem][1]
              = create_notion_filename(export[i].stem,
                                       page_mapping[export[i].stem][2], genUuid)

\* C8: the content transformer is idempotent: applied to a body it wrote, it
\* returns that body.
C8_TransformerIdempotent ==
  \A i \in DOMAIN emitted :
    Transformer(outFiles[emitted[i]].body) = outFiles[emitted[i]].body

\* C9: every rewrite of a document appends exactly one warning to the log for
\* each cross-reference whose name has no registry entry, and does not abort
\* the run.
C9_EveryMissLogged ==
  [][\A i \in 1..Len(export) :
       rewritten' = Append(rewritten, i)
         => /\ Warnings(conversion_log') - Warnings(conversion_log)
                 = Misses(export[i].text, page_mapping')
            /\ raised' = ""]_vars

\* C10: a failed write of a document does not abort the run, and no count
\* the finished run reports includes a document that was not written.
C10_CountsOmitUnwritten ==
  /\ WriteFailed # {} => raised = ""
  /\ pc = "done" =>
       \A n \in ReportedCounts :
         n + Cardinality(WriteFailed) <= Cardinality(registered)

\* the source root is invalid: the directory the arguments select (the root
\* itself when no export is named) is missing or holds neither pages/ nor
\* journals/
InvalidSource == path_kind(root, source_name) # "export"

\* C11: a constructor call on an invalid source root raises during
\* initialization, and no output directory or file exists afterwards.
C11_InvalidRootRaisesAtInit ==
  InvalidSource =>
    /\ pc \in {"new", "init_raised"}
    /\ ~output_dir
    /\ outFiles = <<>>

\* C12: a failed write of the run report or of the ZIP archive does not make
\* convert() raise, and the document files written before it are still there.
C12_ReportZipFailuresNonFatal ==
  /\ raised # "OSError"
  /\ \A i \in DOMAIN emitted : emitted[i] \in DOMAIN outFiles

\* the primary table and the six view tables
TableNames == {"database", "today", "global", "projects", "tasks", "meetings", "wiki"}

\* the write of a table failed and was logged
TableFailed(v) ==
  \E k \in 1..Len(conversion_log) :
    \/ v = "database" /\ conversion_log[k] = <<"csv_failed">>
    \/ conversion_log[k] = <<"view_failed", v>>

\* the row of ten columns of a database entry
RowOf(e) ==
  <<e.name, e.start_date, e.page_type, e.end_date, e.members, e.created_by,
    e.tags, e.summary, e.status, e.progress>>

\* C13: in the team variant, once create_database_csv and create_view_csvs
\* have run, every table whose write did not fail is there, and the primary
\* table and each of the six view tables hold the ten-column header and one
\* row per entry of database_entries, in the order of database_entries.
C13_ViewsHoldPrimaryRows ==
  (variant = "team" /\ pc \in {"report", "zip", "end", "done"}) =>
    \A v \in TableNames :
      /\ v \in DOMAIN tables \/ TableFailed(v)
      /\ v \in DOMAIN tables =>
           /\ tables[v].header =
                <<"name", "start_date", "page_type", "end_date", "members",
                  "created_by", "tags", "summary", "status", "progress">>
           /\ tables[v].rows = [k \in 1..Len(database_entries) |->
                                  RowOf(database_entries[k])]

\* a finished team run with all seven tables written, over two entries of
\* different page types
C13_Witness ==
  /\ variant = "team"
  /\ pc = "done"
  /\ DOMAIN tables = TableNames
  /\ Len(database_entries) = 2
  /\ database_entries[1].page_type # database_entries[2].page_type

\* the reserved table-of-contents key
ContentsKey == <<"c", "o", "n", "t", "e", "n", "t", "s">>

\* C14: a document whose key is the reserved key contents is never written
\* to an output file of its own and, in the team variant, gets no registry
\* entry and no table row.
C14_ContentsNeverEmitted ==
  \A i \in 1..Len(export) :
    export[i].stem = ContentsKey =>
      /\ i \notin DOMAIN emitted
      /\ variant = "team" =>
           /\ i \notin registered
           /\ \A k \in 1..Len(database_entries) :
                database_entries[k].name # ContentsKey

\* the start date MM/DD/YYYY of a key YYYY_MM_DD
StartDate(key) ==
  SubSeq(key, 6, 7) \o <<"/">> \o SubSeq(key, 9, 10) \o <<"/">> \o SubSeq(key, 1, 4)

\* the table rows of the team variant: a journal whose key is exactly a date
\* has a row of the journal type with its display name, the start date
\* MM/DD/YYYY and an empty end date; rows of the article type have an empty
\* start date
DatedRows ==
  /\ \A i \in registered :
       (variant = "team" /\ export[i].coll = "journals"
        /\ IsStrictDateKey(export[i].stem)) =>
         \E k \in 1..Len(database_entries) :
           /\ database_entries[k].name = DisplayName(export[i])
           /\ database_entries[k].page_type = "journal"
           /\ database_entries[k].start_date = StartDate(export[i].stem)
           /\ database_entries[k].end_date = <<>>
  /\ \A k \in 1..Len(database_entries) :
       database_entries[k].page_type = "article"
         => database_entries[k].start_date = <<>>

\* C15 (as stated): for every journal whose key is exactly YYYY_MM_DD the
\* output filename is the display name YYYY-nian-MM-yue-DD-ri plus the
\* extension, and the table rows are as DatedRows says.
C15_DatedJournalFilename ==
  /\ \A i \in registered :
       (export[i].coll = "journals" /\ IsStrictDateKey(export[i].stem)) =>
         page_mapping[export[i].stem][1]
           = DisplayName(export[i]) \o <<".", "m", "d">>
  /\ DatedRows

\* C15 (amended): the same, where with identifier generation enabled the
\* filename is the display name, a space, the identifier of the record, and
\* the extension.
C15_DatedJournalFilenameWithIdentifier ==
  /\ \A i \in registered :
       (export[i].coll = "journals" /\ IsStrictDateKey(export[i].stem)) =>
         LET rec == page_mapping[export[i].stem]
         IN  rec[1] = DisplayName(export[i])
                      \o (IF rec[2] = <<>> THEN <<>> ELSE <<" ">> \o rec[2])
                      \o <<".", "m", "d">>
  /\ DatedRows

\* a finished team run with identifiers over a journal whose key is a date
\* with different month and day
C15_Witness ==
  /\ variant = "team"
  /\ genUuid
  /\ pc = "done"
  /\ \E i \in registered :
       /\ export[i].coll = "journals"
       /\ IsStrictDateKey(export[i].stem)
       /\ SubSeq(export[i].stem, 6, 7) # SubSeq(export[i].stem, 9, 10)
       /\ Len(database_entries) = 1

\* every step of the content transformer, in the order convert_file applies
\* them: cross-references in the link format of the running converter, image
\* references, then task markers, property lines, block references, queries
AllSteps(text) ==
  convert_logseq_syntax(convert_image_links(
    IF variant = "plain" THEN plain_convert_links(text, page_mapping)
    ELSE team_convert_links(text, page_mapping, genUuid)))

\* C16: in the team variant the body of every emitted page is its source
\* text after all transformer steps: cross-references, image references,
\* task markers, property lines, block references and queries.
C16_TeamBodyFullyTransformed ==
  variant = "team" =>
    \A i \in DOMAIN emitted :
      outFiles[emitted[i]].body = AllSteps(export[i].text)

\* the link convert_links puts in place of the cross-reference [[name]]
LinkFor(name) ==
  plain_replace_page_link(<<"[", "[">> \o name \o <<"]", "]">>, page_mapping)

\* C17: in the plain pipeline no later step re-matches what the
\* cross-reference step produced: for every cross-reference of a source text,
\* the link that replaced it (visible text and target) stands unchanged in
\* the body written.
C17_LinksSurviveLaterSteps ==
  variant = "plain" =>
    \A i \in DOMAIN emitted :
      \A name \in References(export[i].text) :
        contains(outFiles[emitted[i]].body, LinkFor(name))

\* the paths of the image references of a text
ImagePathsOf(text) ==
  LET E  == [i \in DOMAIN text |-> image_match_end(text, i)]
      ms == re_matches(E, text, 1)
  IN  {SubSeq(ms[k], find_first(ms[k], 3, {"]"}) + 2, Len(ms[k]) - 1) : k \in 1..Len(ms)}

\* the text has an image reference whose path holds assets/
HasAssetImage(text) ==
  \E path \in ImagePathsOf(text) :
    contains(path, <<"a", "s", "s", "e", "t", "s", "/">>)

\* C18 (as stated): on a text without any cross-reference, convert_links of
\* either converter returns the text unchanged and appends nothing to the
\* log, whatever the registry holds.
C18_NoReferenceNoChange ==
  \A k \in 1..Len(rewritten) :
    LET text == export[rewritten[k]].text
    IN  References(text) = {} =>
          /\ ConvertLinks(text) = text
          /\ Warnings(conversion_log) = 0

\* C18 (amended): the same for the team converter; the plain convert_links
\* also runs the image step, and returns unchanged every text that has
\* neither a cross-reference nor an image reference whose path holds assets/.
C18_NoReferenceNoAssetImageNoChange ==
  \A k \in 1..Len(rewritten) :
    LET text == export[rewritten[k]].text
    IN  (References(text) = {} /\ (variant = "plain" => ~HasAssetImage(text))) =>
          /\ ConvertLinks(text) = text
          /\ Warnings(conversion_log) = 0

\* a finished plain run over a text without cross-reference that holds an
\* image reference to an external URL
C18_Witness ==
  /\ variant = "plain"
  /\ pc = "done"
  /\ \E k \in 1..Len(rewritten) :
       LET text == export[rewritten[k]].text
       IN  /\ References(text) = {}
           /\ ImagePathsOf(text) # {}
           /\ ~HasAssetImage(text)
           /\ rewritten[k] \in DOMAIN emitted

\* the path goes through a directory named assets
ThroughAssets(path) ==
  LET parts == split(path, "/")
  IN  \E k \in 1..(Len(parts) - 1) : parts[k] = <<"a", "s", "s", "e", "t", "s">>

\* the text is one image reference
IsImageReference(text) == text # <<>> /\ image_match_end(text, 1) = Len(text)

\* C19: convert_image_links turns an image reference whose path goes through
\* a directory named assets into the reference, with the same alt text, to
\* the percent-encoded basename of the path, and returns every other image
\* reference unchanged.
C19_OnlyAssetImagesFlattened ==
  variant = "plain" =>
    \A k \in 1..Len(rewritten) :
      LET text == export[rewritten[k]].text
          j    == find_first(text, 3, {"]"})
          path == SubSeq(text, j + 2, Len(text) - 1)
      IN  IsImageReference(text) =>
            convert_image_links(text) =
              IF ThroughAssets(path)
              THEN SubSeq(text, 1, j + 1) \o quote(basename(path), {}) \o <<")">>
              ELSE text

\* the four task keywords and the box each one becomes
TaskBox ==
  (<<"D", "O", "N", "E">> :> "x") @@ (<<"T", "O", "D", "O">> :> " ") @@ (<<"L", "A", "T", "E", "R">> :> " ") @@ (<<"N", "O", "W">> :> " ")

\* a line with its task marker normalized: indentation, a dash, blanks and
\* a keyword that ends the line or is followed by blanks become the
\* indentation and the box; every other line is returned as it is
NormalizedLine(line) ==
  LET q   == span_end(line, 1, {" ", "\t"}) + 1
      r   == span_end(line, q + 1, {" ", "\t"})
      kws == {kw \in DOMAIN TaskBox : starts_at(line, r + 1, kw)}
  IN  IF q <= Len(line) /\ line[q] = "-" /\ r >= q + 1 /\ kws # {}
      THEN LET kw == CHOOSE kw \in kws : TRUE
               e  == r + Len(kw)
               t  == span_end(line, e + 1, {" ", "\t"})
           IN  IF e = Len(line) \/ t >= e + 1
               THEN SubSeq(line, 1, q - 1) \o <<"-", " ", "[", TaskBox[kw], "]", " ">>
                    \o SubSeq(line, t + 1, Len(line))
               ELSE line
      ELSE line

\* the lines of a text with every task marker normalized, joined again
NormalizedTasks(text) ==
  LET ls == split(text, "\n")
  IN  join([k \in 1..(2 * Len(ls) - 1) |->
              IF k % 2 = 1 THEN NormalizedLine(ls[(k + 1) \div 2]) ELSE <<"\n">>])

\* C20: on a text of task lines, convert_logseq_syntax rewrites each line
\* made of indentation, a dash and one of DONE, TODO, LATER, NOW (also when
\* the keyword ends the line) to the indentation and the box, leaves the
\* rest of the line and every other line as they are, and keeps the number
\* of lines.
C20_TaskMarkersNormalized ==
  variant = "plain" =>
    \A i \in DOMAIN emitted :
      export[i].text \in TaskTexts =>
        /\ outFiles[emitted[i]].body = NormalizedTasks(export[i].text)
        /\ Len(split(outFiles[emitted[i]].body, "\n")) = Len(split(export[i].text, "\n"))

\* C21: no two different source documents are mapped to the same output
\* filename, no output file is overwritten by another document's, and the
\* number of files written is the number of documents emitted - with and
\* without identifiers, whatever the source filenames.
C21_OutputFilenamesDistinct ==
  /\ \A i, j \in registered :
       i # j => page_mapping[export[i].stem][1] # page_mapping[export[j].stem][1]
  /\ \A i, j \in DOMAIN emitted : i # j => emitted[i] # emitted[j]
  /\ Cardinality(DOMAIN outFiles) = Cardinality(DOMAIN emitted)

====
